---- MODULE Spec2Model ----
(***************************************************************************)
(* A model of `qsv sniff` (src/src/cmd/sniff.rs): one invocation of run,   *)
(* from argument checking through get_file_to_sniff (local file, stdin or  *)
(* remote URL), row counting, sample-size resolution, the call of the      *)
(* inferencer, rowcount, cleanup_tempfile and the final rendering.         *)
(*                                                                         *)
(* Bytes.  A file or an HTTP body is a sequence of segments: "n" is one    *)
(* newline byte, "q" one quote byte, "x" a run of XLen ordinary bytes.     *)
(* Sample sizes (f64 in the code) are kept in hundredths: 50 is 0.5.       *)
(* usize is kept at 16 bits: UsizeMax stands for usize::MAX.               *)
(***************************************************************************)
EXTENDS Integers, Sequences, FiniteSets, TLC

\* ------------------------------------------------------------------ bounds

MaxBody == 5

MaxChunk == 3

XLen == 100

\* ------------------------------------------------------- program constants

UsizeMax == 65535

MinSniffSize == 20

BytesPerLine == 100

Syms == {"x", "n", "q"}

SampleSizes == {-100, 0, 50, 100, 200}

Inputs == {"local", "stdin", "url"}

Bodies == UNION {[1..k -> Syms] : k \in 0..MaxBody}

Min(a, b) == IF a < b THEN a ELSE b

\* ------------------------------------------------------------ byte helpers

SegLen(c) == IF c = "x" THEN XLen ELSE 1

RECURSIVE ByteLen(_)
ByteLen(b) == IF b = <<>> THEN 0 ELSE SegLen(Head(b)) + ByteLen(Tail(b))

RECURSIVE CountNewlines(_)
CountNewlines(b) ==
    IF b = <<>> THEN 0
    ELSE (IF Head(b) = "n" THEN 1 ELSE 0) + CountNewlines(Tail(b))

Take(s, k) == SubSeq(s, 1, Min(k, Len(s)))

\* The csv reader (flexible, default quoting, double-quote escapes): the
\* records of a byte sequence.  st is the reader's state: "start" at the
\* start of a record, "field" in an unquoted field, "quoted" inside quotes,
\* "dquote" just after a quote seen inside quotes.  Blank lines are skipped;
\* at end of input an unfinished record is returned as a record.
RECURSIVE ReadRecords(_, _, _, _, _)
ReadRecords(b, i, st, cur, acc) ==
    IF i > Len(b)
    THEN IF st = "start" THEN acc ELSE Append(acc, cur)
    ELSE LET c == b[i] IN
         CASE st = "start" ->
                IF c = "n" THEN ReadRecords(b, i + 1, "start", <<>>, acc)
                ELSE IF c = "q" THEN ReadRecords(b, i + 1, "quoted", <<>>, acc)
                ELSE ReadRecords(b, i + 1, "field", <<c>>, acc)
           [] st = "field" ->
                IF c = "n"
                THEN ReadRecords(b, i + 1, "start", <<>>, Append(acc, cur))
                ELSE ReadRecords(b, i + 1, "field", Append(cur, c), acc)
           [] st = "quoted" ->
                IF c = "q" THEN ReadRecords(b, i + 1, "dquote", cur, acc)
                ELSE ReadRecords(b, i + 1, "quoted", Append(cur, c), acc)
           [] OTHER ->
                IF c = "q"
                THEN ReadRecords(b, i + 1, "quoted", Append(cur, "q"), acc)
                ELSE IF c = "n"
                THEN ReadRecords(b, i + 1, "start", <<>>, Append(acc, cur))
                ELSE ReadRecords(b, i + 1, "field", Append(cur, c), acc)

Records(b) == ReadRecords(b, 1, "start", <<>>, <<>>)

\* The csv writer with QuoteStyle::NonNumeric: a record is written between
\* quotes, each quote byte of it doubled, and ended by a newline.
RECURSIVE EscapeQuotes(_)
EscapeQuotes(r) ==
    IF r = <<>> THEN <<>>
    ELSE (IF Head(r) = "q" THEN <<"q", "q">> ELSE <<Head(r)>>)
         \o EscapeQuotes(Tail(r))

WriteRecord(r) == <<"q">> \o EscapeQuotes(r) \o <<"q", "n">>

RECURSIVE WriteRecords(_)
WriteRecords(rs) ==
    IF rs = <<>> THEN <<>> ELSE WriteRecord(Head(rs)) \o WriteRecords(Tail(rs))

\* ------------------------------------------------------------------- state

VARIABLES
    args,               \* Args: input kind, flag_sample, flag_json, ...
    body,               \* the bytes of the source (file, stdin or HTTP body)
    has_content_length, \* whether the server sends Content-Length
    pc,                 \* position in run / get_file_to_sniff
    io_log,             \* kinds of I/O done so far: "net", "fs", "tmp"
    files,              \* state of the input path and of the kept temp file
    remove_calls,       \* fs::remove_file applications, per file
    dl,                 \* the locals of the download loop
    store,              \* the bytes of sfile_info.file_to_sniff
    sfile_info,         \* SniffFileStruct
    n_rows,
    sample_size,        \* in hundredths
    sample_all,
    sampled_records,
    sniff_request,      \* the SampleSize given to the Sniffer
    sniff_results,      \* what the Sniffer returned
    processed_results,  \* SniffStruct
    outcome             \* how the invocation ended and what it printed

vars == <<args, body, has_content_length, pc, io_log, files,
          remove_calls, dl, store, sfile_info, n_rows, sample_size,
          sample_all, sampled_records, sniff_request, sniff_results,
          processed_results, outcome>>

inputVars == <<args, body, has_content_length>>

fsVars == <<files, remove_calls>>

runVars == <<n_rows, sample_size, sample_all, sampled_records>>

sniffVars == <<sniff_request, sniff_results, processed_results>>

\* The structures a source of the given bytes can have: p preamble rows, a
\* header row or none, and the remaining rows as data.
Datasets(b) ==
    {d \in [preamble : 0..Len(Records(b)), header : BOOLEAN] :
        d.preamble + (IF d.header THEN 1 ELSE 0) <= Len(Records(b))}

DataRows(b, d) ==
    Len(Records(b)) - d.preamble - (IF d.header THEN 1 ELSE 0)

NoMetadata ==
    [ok |-> FALSE, has_header_row |-> FALSE, num_preamble_rows |-> 0,
     avg_record_len |-> 0]

NoResults ==
    [sampled_records |-> 0, estimated |-> FALSE, num_records |-> 0,
     retrieved_size |-> 0, file_size |-> 0]

Init ==
    /\ args \in [input : Inputs, sample : SampleSizes, json : BOOLEAN,
                 pretty_json : BOOLEAN, save_urlsample : BOOLEAN]
    /\ body \in Bodies
    /\ has_content_length \in BOOLEAN
    /\ (args.input # "url" => has_content_length = FALSE)
    /\ pc = "start"
    /\ io_log = {}
    /\ files = [input |-> "present", kept |-> "none"]
    /\ remove_calls = [input |-> 0, kept |-> 0]
    /\ dl = [total_size |-> 0, lines_sample_size |-> 0, pos |-> 0,
             file |-> <<>>, downloaded |-> 0, downloaded_lines |-> 0,
             stream_ended |-> FALSE]
    /\ store = <<>>
    /\ sfile_info = [file_to_sniff |-> "input", tempfile_flag |-> FALSE,
                     retrieved_size |-> 0, file_size |-> 0,
                     downloaded_records |-> 0]
    /\ n_rows = 0
    /\ sample_size = args.sample
    /\ sample_all = FALSE
    /\ sampled_records = 0
    /\ sniff_request = [all |-> FALSE, records |-> 0]
    /\ sniff_results = NoMetadata
    /\ processed_results = NoResults
    /\ outcome = [status |-> "running", error |-> "", format |-> "none",
                  stdout |-> "none"]

\* ---------------------------------------------------------------- failures

WantsJson == args.json \/ args.pretty_json

\* return fail_clierror!(...) with the message built as the output mode asks
FailRendered(msg) ==
    /\ pc' = "done"
    /\ outcome' = [status |-> "error", error |-> msg,
                   format |-> IF WantsJson THEN "json" ELSE "plain",
                   stdout |-> "none"]

\* an error passed up by `?`: the plain message of the error
FailPlain(msg) ==
    /\ pc' = "done"
    /\ outcome' = [status |-> "error", error |-> msg, format |-> "plain",
                   stdout |-> "none"]

\* an arithmetic overflow in a build with overflow checks
Panic(msg) ==
    /\ pc' = "done"
    /\ outcome' = [status |-> "panic", error |-> msg, format |-> "none",
                   stdout |-> "none"]

\* cleanup_tempfile(tempfile_flag, tempfile)
cleanup_tempfile(tempfile_flag, tempfile) ==
    IF tempfile_flag
    THEN /\ files' = [files EXCEPT ![tempfile] = "removed"]
         /\ remove_calls' = [remove_calls EXCEPT ![tempfile] = @ + 1]
    ELSE UNCHANGED fsVars

\* ------------------------------------------------------------ run: start

\* A variant of the sample-size test that lets -1 <= s < 0 through.
NegativeSample_Strict(s) == s < -100

NegativeSample(s) == s < 0

RunCheckSample ==
    /\ pc = "start"
    /\ IF NegativeSample(args.sample)
       THEN FailRendered("Sample size must be greater than or equal to zero.")
       ELSE pc' = "get_file" /\ UNCHANGED outcome
    /\ UNCHANGED <<inputVars, io_log, fsVars, dl, store, sfile_info, runVars,
                   sniffVars>>

\* ------------------------------------------------------ get_file_to_sniff

GetFileLocal ==
    /\ pc = "get_file"
    /\ args.input = "local"
    /\ io_log' = io_log \cup {"fs"}
    /\ \E r \in {"ok", "no_metadata"} :
        IF r = "ok"
        THEN /\ sfile_info' = [file_to_sniff |-> "input",
                               tempfile_flag |-> FALSE,
                               retrieved_size |-> ByteLen(body),
                               file_size |-> ByteLen(body),
                               downloaded_records |-> 0]
             /\ store' = body
             /\ pc' = "count"
             /\ UNCHANGED outcome
        ELSE /\ FailPlain("Cannot get metadata for file")
             /\ UNCHANGED <<sfile_info, store>>
    /\ UNCHANGED <<inputVars, fsVars, dl, runVars, sniffVars>>

GetFileStdin ==
    /\ pc = "get_file"
    /\ args.input = "stdin"
    /\ io_log' = io_log \cup {"fs", "tmp"}
    /\ \E r \in {"ok", "fail_before_keep", "fail_after_keep"} :
        CASE r = "ok" ->
               /\ files' = [files EXCEPT !.kept = "present"]
               /\ sfile_info' = [file_to_sniff |-> "kept",
                                 tempfile_flag |-> TRUE,
                                 retrieved_size |-> ByteLen(body),
                                 file_size |-> ByteLen(body),
                                 downloaded_records |-> 0]
               /\ store' = body
               /\ pc' = "count"
               /\ UNCHANGED outcome
          [] r = "fail_before_keep" ->
               /\ FailPlain("Cannot keep temporary file")
               /\ UNCHANGED <<files, sfile_info, store>>
          [] OTHER ->
               /\ files' = [files EXCEPT !.kept = "present"]
               /\ FailPlain("Cannot get metadata for stdin file")
               /\ UNCHANGED <<sfile_info, store>>
    /\ UNCHANGED <<inputVars, remove_calls, dl, runVars, sniffVars>>

\* flag_sample.round() as usize, on hundredths
RoundSample(s) == (s + 50) \div 100

\* The line threshold of the download, from flag_sample and total_size.
LinesSampleSize(s, total_size) ==
    IF s > 100 THEN RoundSample(s)
    ELSE IF s = 0 THEN UsizeMax
    ELSE ((total_size \div BytesPerLine) * s) \div 100

\* The request, the response's content length, the line threshold and the
\* temporary file the chunks go to.
HttpGet ==
    /\ pc = "get_file"
    /\ args.input = "url"
    /\ io_log' = io_log \cup {"net"} \cup {"tmp"}
    /\ \E r \in {"ok", "failed"} :
        IF r = "ok"
        THEN LET total_size == IF has_content_length THEN ByteLen(body)
                               ELSE UsizeMax
             IN /\ dl' = [dl EXCEPT
                            !.total_size = total_size,
                            !.lines_sample_size =
                                LinesSampleSize(args.sample, total_size)]
                /\ pc' = "stream"
                /\ UNCHANGED outcome
        ELSE /\ FailPlain("Failed to GET from url")
             /\ UNCHANGED dl
    /\ UNCHANGED <<inputVars, fsVars, store, sfile_info, runVars, sniffVars>>

\* A variant of the stop test that stops one line early.
EnoughLines_AtLeast(downloaded_lines, lines_sample_size) ==
    downloaded_lines >= lines_sample_size

\* we downloaded enough samples, stop downloading
EnoughLines(downloaded_lines, lines_sample_size) ==
    downloaded_lines > lines_sample_size

\* One turn of the download loop: the next chunk is written to the file and
\* its bytes and newlines are counted.
StreamChunk ==
    /\ pc = "stream"
    /\ dl.pos < Len(body)
    /\ \E k \in 1..Min(MaxChunk, Len(body) - dl.pos) :
        LET chunk == SubSeq(body, dl.pos + 1, dl.pos + k)
            lines == dl.downloaded_lines + CountNewlines(chunk)
        IN /\ dl' = [dl EXCEPT
                       !.pos = dl.pos + k,
                       !.file = dl.file \o chunk,
                       !.downloaded =
                           Min(dl.downloaded + ByteLen(chunk), dl.total_size),
                       !.downloaded_lines = lines]
           /\ pc' = IF EnoughLines(lines, dl.lines_sample_size)
                    THEN "discount" ELSE "stream"
    /\ UNCHANGED <<inputVars, io_log, fsVars, store, sfile_info, runVars,
                   sniffVars, outcome>>

\* The stream yields an error, or the chunk cannot be written.
StreamError ==
    /\ pc = "stream"
    /\ FailPlain("Error while downloading file")
    /\ UNCHANGED <<inputVars, io_log, fsVars, dl, store, sfile_info, runVars,
                   sniffVars>>

\* stream.next() returns None
StreamEnd ==
    /\ pc = "stream"
    /\ dl.pos = Len(body)
    /\ dl' = [dl EXCEPT !.stream_ended = TRUE]
    /\ pc' = "discount"
    /\ UNCHANGED <<inputVars, io_log, fsVars, store, sfile_info, runVars,
                   sniffVars, outcome>>

\* A variant of the decrement that is guarded: it leaves a counter of 0.
DiscountHeader_Guarded ==
    /\ pc = "discount"
    /\ dl' = [dl EXCEPT !.downloaded_lines =
                  IF dl.downloaded_lines > 0 THEN dl.downloaded_lines - 1
                  ELSE 0]
    /\ pc' = "rewrite"
    /\ UNCHANGED <<inputVars, io_log, fsVars, store, sfile_info, runVars,
                   sniffVars, outcome>>

\* downloaded_lines -= 1: on 0 a build with overflow checks panics, a build
\* without them wraps.
DiscountHeader ==
    /\ pc = "discount"
    /\ IF dl.downloaded_lines > 0
       THEN /\ dl' = [dl EXCEPT !.downloaded_lines = dl.downloaded_lines - 1]
            /\ pc' = "rewrite"
            /\ UNCHANGED outcome
       ELSE \/ /\ Panic("attempt to subtract with overflow")
               /\ UNCHANGED dl
            \/ /\ dl' = [dl EXCEPT !.downloaded_lines = UsizeMax]
               /\ pc' = "rewrite"
               /\ UNCHANGED outcome
    /\ UNCHANGED <<inputVars, io_log, fsVars, store, sfile_info, runVars,
                   sniffVars>>

\* The rows copied to the kept file: the first record of the download as the
\* header, then the records after it while fewer than lines_sample_size
\* have been copied.
SampleRows(file, lines_sample_size) ==
    LET recs == Records(file)
        header_row == IF recs = <<>> THEN <<>> ELSE Head(recs)
        data == IF recs = <<>> THEN <<>> ELSE Tail(recs)
    IN <<header_row>> \o Take(data, lines_sample_size)

\* The download is read back (no_headers, flexible) and rewritten to a second
\* temporary file, which is kept.
RewriteSample ==
    /\ pc = "rewrite"
    /\ io_log' = io_log \cup {"fs", "tmp"}
    /\ \E r \in {"ok", "fail_before_keep", "fail_after_keep"} :
        CASE r = "ok" ->
               LET rows == SampleRows(dl.file, dl.lines_sample_size) IN
               /\ files' = [files EXCEPT !.kept = "present"]
               /\ store' = WriteRecords(rows)
               /\ sfile_info' =
                    [file_to_sniff |-> "kept",
                     tempfile_flag |-> TRUE,
                     retrieved_size |-> dl.downloaded,
                     file_size |-> IF dl.total_size = UsizeMax
                                   THEN dl.downloaded ELSE dl.total_size,
                     downloaded_records |-> Len(rows) - 1]
               /\ pc' = "count"
               /\ UNCHANGED outcome
          [] r = "fail_before_keep" ->
               /\ FailPlain("Cannot keep temporary file")
               /\ UNCHANGED <<files, store, sfile_info>>
          [] OTHER ->
               /\ files' = [files EXCEPT !.kept = "present"]
               /\ FailPlain("csv error while rewriting the sample")
               /\ UNCHANGED <<store, sfile_info>>
    /\ UNCHANGED <<inputVars, remove_calls, dl, runVars, sniffVars>>

\* --------------------------------------------------- run: count the rows

\* util::count_rows on a Config with headers: the records after the first.
count_rows(bytes) ==
    IF Records(bytes) = <<>> THEN 0 ELSE Len(Records(bytes)) - 1

\* downloaded_records == 0: the rows are counted; otherwise usize::MAX asks
\* rowcount for an estimate.
NeedsCount(info) == info.downloaded_records = 0

CountRows ==
    /\ pc = "count"
    /\ IF NeedsCount(sfile_info)
       THEN \/ /\ n_rows' = count_rows(store)
               /\ pc' = "empty_check"
               /\ UNCHANGED <<outcome, fsVars>>
            \/ /\ cleanup_tempfile(sfile_info.tempfile_flag,
                                   sfile_info.file_to_sniff)
               /\ FailRendered("count rows error")
               /\ UNCHANGED n_rows
       ELSE /\ n_rows' = UsizeMax
            /\ pc' = "empty_check"
            /\ UNCHANGED <<outcome, fsVars>>
    /\ UNCHANGED <<inputVars, io_log, dl, store, sfile_info, sample_size,
                   sample_all, sampled_records, sniffVars>>

\* its an empty file, exit with an error
EmptyCheck ==
    /\ pc = "empty_check"
    /\ IF n_rows = 0
       THEN /\ cleanup_tempfile(sfile_info.tempfile_flag,
                                sfile_info.file_to_sniff)
            /\ FailRendered("Empty file")
       ELSE /\ pc' = "resolve"
            /\ UNCHANGED <<outcome, fsVars>>
    /\ UNCHANGED <<inputVars, io_log, dl, store, sfile_info, runVars,
                   sniffVars>>

\* ------------------------------------------- run: resolve the sample size

\* `x as usize` of a non-negative value in hundredths
AsUsize(hundredths) == Min(hundredths \div 100, UsizeMax)

\* sample_size after lines 534-540, in hundredths
ResolvedSampleSize(s, rows) == IF s < 100 THEN s * rows ELSE s

\* sample_all after lines 531-540: its branch is the else of s < 1.0
ResolvedSampleAll(s) == IF s < 100 THEN FALSE ELSE s = 0

ResolveSample ==
    /\ pc = "resolve"
    /\ sample_size' = ResolvedSampleSize(sample_size, n_rows)
    /\ IF sfile_info.downloaded_records = 0
       THEN /\ sampled_records' = AsUsize(sample_size')
            /\ sample_all' = ResolvedSampleAll(sample_size)
       ELSE /\ sampled_records' = sfile_info.downloaded_records
            /\ sample_all' = TRUE
    /\ pc' = "open_reader"
    /\ UNCHANGED <<inputVars, io_log, fsVars, dl, store, sfile_info, n_rows,
                   sniffVars, outcome>>

\* let rdr = conf.reader_file()?;
OpenReader ==
    /\ pc = "open_reader"
    /\ \/ pc' = "save" /\ UNCHANGED outcome
       \/ FailPlain("cannot open the file to sniff")
    /\ UNCHANGED <<inputVars, io_log, fsVars, dl, store, sfile_info, runVars,
                   sniffVars>>

\* fs::copy(file_to_sniff, save_urlsample)? when --save-urlsample is given
SaveUrlSample ==
    /\ pc = "save"
    /\ IF args.save_urlsample
       THEN \/ pc' = "sniff" /\ UNCHANGED outcome
            \/ FailPlain("cannot copy the sample to --save-urlsample")
       ELSE pc' = "sniff" /\ UNCHANGED outcome
    /\ UNCHANGED <<inputVars, io_log, fsVars, dl, store, sfile_info, runVars,
                   sniffVars>>

\* --------------------------------------------------------- run: inference

\* sniff_size: sample_size as usize, at least 20
SniffSize(hundredths) ==
    IF AsUsize(hundredths) < MinSniffSize THEN MinSniffSize
    ELSE AsUsize(hundredths)

\* The SampleSize the Sniffer is built with.
SniffRequest(all, hundredths) ==
    IF all THEN [all |-> TRUE, records |-> 0]
    ELSE [all |-> FALSE, records |-> SniffSize(hundredths)]

AvgLens == {1, XLen + 1}

\* What the Sniffer (an external library) may return for a file: an error,
\* or a header flag and a number of preamble rows that fit in the file's
\* rows (a file of preamble and header rows only has no data row), with an
\* average record length of at least one byte and at most the file.
SniffOutcomes(bytes) ==
    {NoMetadata} \cup
    {m \in [ok : {TRUE}, has_header_row : BOOLEAN,
            num_preamble_rows : 0..Len(Records(bytes)),
            avg_record_len : AvgLens] :
        /\ m.num_preamble_rows + (IF m.has_header_row THEN 1 ELSE 0)
              <= Len(Records(bytes))
        /\ m.avg_record_len <= ByteLen(bytes)}

Sniff ==
    /\ pc = "sniff"
    /\ sniff_request' = SniffRequest(sample_all, sample_size)
    /\ sniff_results' \in SniffOutcomes(store)
    /\ pc' = "process"
    /\ UNCHANGED <<inputVars, io_log, fsVars, dl, store, sfile_info, runVars,
                   processed_results, outcome>>

\* rowcount(metadata, sniff_file_info, count): the count or the estimate,
\* plus one without a header row, minus the preamble rows; overflow tells
\* that one of the two steps left the range of usize.
rowcount(metadata, sniff_file_info, count) ==
    LET estimated == count = UsizeMax
        rows == IF estimated
                THEN sniff_file_info.file_size \div metadata.avg_record_len
                ELSE count
        with_header == IF metadata.has_header_row THEN rows ELSE rows + 1
        final_rowcount == with_header - metadata.num_preamble_rows
    IN [rowcount |-> final_rowcount % (UsizeMax + 1),
        estimated |-> estimated,
        overflow |-> with_header > UsizeMax \/ final_rowcount < 0]

\* A variant of the result that keeps sampled_records as resolved.
NoClamp(sampled, num_records) == sampled

\* sampled_records of the result: clamped to num_records
ClampSampled(sampled, num_records) ==
    IF sampled > num_records THEN num_records ELSE sampled

\* match sniff_results: the result is built, or the error is kept.
ProcessResults ==
    /\ pc = "process"
    /\ IF sniff_results.ok
       THEN LET rc == rowcount(sniff_results, sfile_info, n_rows)
                built == [sampled_records |->
                              ClampSampled(sampled_records, rc.rowcount),
                          estimated |-> rc.estimated,
                          num_records |-> rc.rowcount,
                          retrieved_size |-> sfile_info.retrieved_size,
                          file_size |-> sfile_info.file_size]
            IN \/ /\ processed_results' = built
                  /\ pc' = "cleanup"
                  /\ UNCHANGED outcome
               \/ /\ rc.overflow
                  /\ Panic("attempt to subtract with overflow")
                  /\ UNCHANGED processed_results
       ELSE /\ pc' = "cleanup"
            /\ UNCHANGED <<processed_results, outcome>>
    /\ UNCHANGED <<inputVars, io_log, fsVars, dl, store, sfile_info, runVars,
                   sniff_request, sniff_results>>

\* cleanup_tempfile(sfile_info.tempfile_flag, tempfile_to_delete)?;
Cleanup ==
    /\ pc = "cleanup"
    /\ cleanup_tempfile(sfile_info.tempfile_flag, sfile_info.file_to_sniff)
    /\ pc' = "emit"
    /\ UNCHANGED <<inputVars, io_log, dl, store, sfile_info, runVars,
                   sniffVars, outcome>>

\* The result is printed as the output mode asks, or the inference error is
\* returned.
Emit ==
    /\ pc = "emit"
    /\ IF sniff_results.ok
       THEN outcome' = [status |-> "ok", error |-> "", format |-> "none",
                        stdout |-> IF args.pretty_json THEN "pretty_json"
                                   ELSE IF args.json THEN "json"
                                   ELSE "plain"]
       ELSE outcome' = [status |-> "error", error |-> "sniff error",
                        format |-> IF WantsJson THEN "json" ELSE "plain",
                        stdout |-> "none"]
    /\ pc' = "done"
    /\ UNCHANGED <<inputVars, io_log, fsVars, dl, store, sfile_info, runVars,
                   sniffVars>>

Next ==
    \/ CountRows
    \/ EmptyCheck
    \/ ResolveSample
    \/ OpenReader
    \/ SaveUrlSample
    \/ Sniff
    \/ ProcessResults
    \/ Cleanup
    \/ Emit
    \/ RunCheckSample
    \/ GetFileLocal
    \/ GetFileStdin
    \/ HttpGet
    \/ StreamChunk
    \/ StreamError
    \/ StreamEnd
    \/ DiscountHeader
    \/ RewriteSample

Spec == Init /\ [][Next]_vars

\* -------------------------------------------------------------- properties

Done == pc = "done"

Succeeded == pc = "done" /\ outcome.status = "ok"

LocalOrStdin == args.input \in {"local", "stdin"}

\* C1: a temporary file kept for inference is removed exactly once on every
\* exit path of run and get_file_to_sniff after it was created (never left
\* on disk, never removed twice), and the input file of a local path is
\* never removed.
C1_KeptFileRemovedExactlyOnce ==
    (Done /\ outcome.status \in {"ok", "error"}) =>
        /\ files.kept # "present"
        /\ remove_calls.kept <= 1
        /\ (files.kept = "removed" => remove_calls.kept = 1)
        /\ files.input = "present"
        /\ remove_calls.input = 0

\* C2: every successful result has num_records > 0: a record count that is
\* zero after the header and preamble adjustments ends the invocation in the
\* empty-dataset failure.
C2_SuccessHasRecords ==
    Succeeded => processed_results.num_records > 0

\* C3: for a local file or stdin with sample size exactly 0 and a non-empty
\* dataset, the successful result has sampled_records = num_records and
\* estimated = false.
C3_SampleZeroSamplesAll ==
    (Succeeded /\ LocalOrStdin /\ args.sample = 0) =>
        /\ processed_results.sampled_records = processed_results.num_records
        /\ ~processed_results.estimated

\* The Sniffer reported the structure d.
Reported(d) ==
    /\ sniff_results.ok
    /\ sniff_results.num_preamble_rows = d.preamble
    /\ sniff_results.has_header_row = d.header

\* C4: for a local dataset (file or stdin) of p preamble rows, an optional
\* header row and d >= 1 data rows, with the inferencer reporting p and the
\* header correctly, the invocation succeeds with num_records = d and
\* estimated = false.  (Runs ended by an I/O or inference failure are left
\* aside: the run succeeded or reported an empty file.)
C4_LocalCountIsDataRows ==
    (Done /\ LocalOrStdin
          /\ (outcome.status = "ok" \/ outcome.error = "Empty file")) =>
        \A d \in Datasets(body) :
            (DataRows(body, d) >= 1 /\ (outcome.status = "ok" => Reported(d)))
            => /\ outcome.status = "ok"
               /\ processed_results.num_records = DataRows(body, d)
               /\ ~processed_results.estimated

\* s is an initial part of t.
IsPrefix(s, t) == Len(s) <= Len(t) /\ SubSeq(t, 1, Len(s)) = s

\* C5: for a remote source the store handed to inference holds the header
\* row and the first N complete data rows of the download (N the line
\* threshold, or all rows when fewer are available): each of its rows is a
\* whole row of the source, never a row cut off by stopping the stream.
\* (A download without any row is left aside.)
C5_SampleHoldsCompleteRows ==
    (args.input = "url" /\ sfile_info.tempfile_flag
                        /\ Records(dl.file) # <<>>) =>
        /\ IsPrefix(Records(store), Records(body))
        /\ Len(Records(store)) =
              Min(dl.lines_sample_size + 1, Len(Records(dl.file)))

\* C6: a negative sample size makes run fail with the "Sample size must be
\* greater than or equal to zero" error before get_file_to_sniff is called:
\* no network request, no filesystem access, no temporary file.
C6_NegativeSampleFailsFirst ==
    args.sample < 0 =>
        /\ pc \in {"start", "done"}
        /\ io_log = {}
        /\ files.kept = "none"
        /\ (Done =>
              /\ outcome.status = "error"
              /\ outcome.error =
                    "Sample size must be greater than or equal to zero.")

C6_Witness == args.sample < 0 /\ Done /\ outcome.status = "error"

\* The whole body of the remote source was retrieved.
FullyDownloaded == dl.pos = Len(body)

\* C7: the estimator returns the exact count with estimated = false for a
\* local file, stdin and a remote source whose body was downloaded
\* completely, and file_size / avg_record_len with estimated = true if and
\* only if just a prefix of a remote source was retrieved.
C7_EstimatedIffPrefix ==
    Succeeded =>
        (processed_results.estimated <=>
            (args.input = "url" /\ ~FullyDownloaded))

\* The rows the Sniffer was asked to examine: every data row of the file in
\* sample-all mode, the requested number otherwise.
RowsExamined ==
    IF sniff_request.all THEN count_rows(store) ELSE sniff_request.records

\* C8: in every successful result sampled_records is the number of rows the
\* inferencer was asked to examine (the resolved sample size after the
\* 20-row floor, or all rows in sample-all mode), clamped to num_records.
C8_SampledIsRowsExamined ==
    Succeeded =>
        processed_results.sampled_records =
            Min(RowsExamined, processed_results.num_records)

\* C9: in every successful result, for every source kind and sample size,
\* sampled_records <= num_records.
C9_SampledAtMostRecords ==
    Succeeded =>
        processed_results.sampled_records <= processed_results.num_records

C9_Witness ==
    /\ Succeeded
    /\ sampled_records > processed_results.num_records
    /\ processed_results.sampled_records = processed_results.num_records

\* C10: for a remote source the line threshold is s itself for every s >= 1
\* (s exactly 1 included), unbounded for s = 0, and (total_size / 100) * s
\* for 0 < s < 1 when the total size is known; an unknown total size is
\* never used as a number.
C10_LineThreshold ==
    (args.input = "url" /\ pc \in {"stream", "discount", "rewrite"}) =>
        /\ args.sample >= 100 =>
              dl.lines_sample_size = (args.sample + 50) \div 100
        /\ args.sample = 0 => dl.lines_sample_size = UsizeMax
        /\ (args.sample > 0 /\ args.sample < 100 /\ has_content_length) =>
              dl.lines_sample_size =
                  ((ByteLen(body) \div 100) * args.sample) \div 100
        /\ (args.sample > 0 /\ ~has_content_length) =>
              dl.lines_sample_size #
                  ((UsizeMax \div 100) * args.sample) \div 100

\* The Sniffer has been invoked: sniff_request holds what it was built with.
SnifferInvoked == sniff_request.all \/ sniff_request.records > 0

\* C11: the inferencer is invoked in sample-all mode whenever the requested
\* sample size is exactly zero, for local, stdin and remote sources alike;
\* in every invocation not in sample-all mode the row cap it is given is
\* max(resolved sample size, 20).
C11_SampleAllOnZero ==
    SnifferInvoked =>
        /\ (args.sample = 0 => sniff_request.all)
        /\ (~sniff_request.all =>
              sniff_request.records =
                  (IF sample_size \div 100 > 20 THEN sample_size \div 100
                   ELSE 20))

\* C12: every failure of an invocation is rendered as the output mode asks,
\* a structured errors object when --json or --pretty-json is set and a
\* plain-text line otherwise, and no success result is printed in an
\* invocation that fails.
C12_FailureFollowsOutputMode ==
    (Done /\ outcome.status = "error") =>
        /\ outcome.format = (IF args.json \/ args.pretty_json
                             THEN "json" ELSE "plain")
        /\ outcome.stdout = "none"

\* The download loop is running, or has just been left without an error.
InDownload == args.input = "url" /\ pc \in {"stream", "discount"}

\* What holds of the loop's locals during and just after the loop.
DownloadLoopInv ==
    InDownload =>
        /\ dl.file = Take(body, dl.pos)
        /\ dl.downloaded <= dl.total_size
        /\ dl.downloaded_lines = CountNewlines(dl.file)
        /\ (pc = "stream" =>
              /\ dl.downloaded_lines <= dl.lines_sample_size
              /\ ~dl.stream_ended)
        /\ (pc = "discount" =>
              \/ dl.downloaded_lines > dl.lines_sample_size
              \/ dl.stream_ended /\ dl.pos = Len(body))
        /\ ((pc = "discount" /\ args.sample = 0) => dl.pos = Len(body))

\* A chunk is read only inside the loop, while the newline count has not
\* exceeded the threshold, and it is the next bytes of the body, appended to
\* the temporary file.
ChunkReadInOrder ==
    dl'.pos # dl.pos =>
        /\ pc = "stream"
        /\ dl.downloaded_lines <= dl.lines_sample_size
        /\ dl'.pos > dl.pos
        /\ dl'.file = dl.file \o SubSeq(body, dl.pos + 1, dl'.pos)

\* C13: the download loop reads chunks in order and stops at the first chunk
\* after which the newline count exceeds the line threshold: no chunk is
\* read after that one, every chunk read has been written to the temporary
\* file, the loop ends otherwise only when the stream ends, with sample
\* size 0 the whole body is consumed, and after every chunk the
\* bytes-received counter is at most total_size.
C13_LoopStopsAtThreshold == []DownloadLoopInv /\ [][ChunkReadInOrder]_vars

C13_Witness ==
    /\ args.input = "url"
    /\ pc = "discount"
    /\ ~dl.stream_ended
    /\ dl.pos < Len(body)
    /\ dl.downloaded_lines > dl.lines_sample_size

\* The loop was left with no newline byte seen: the stream ended and the
\* counter is 0.
NoNewlineMeansZero ==
    (args.input = "url" /\ pc = "discount" /\ CountNewlines(dl.file) = 0) =>
        dl.stream_ended /\ dl.downloaded_lines = 0

\* The step after the loop: the counter loses one, and a counter of 0
\* leaves the range of usize (a panic, or the wrapped value).
DecrementUnguarded ==
    (pc = "discount" /\ pc' # "discount") =>
        IF dl.downloaded_lines > 0
        THEN dl'.downloaded_lines = dl.downloaded_lines - 1
        ELSE \/ outcome'.status = "panic"
             \/ dl'.downloaded_lines = UsizeMax

\* C14: after the streaming loop the downloaded-line counter is decremented
\* by one unconditionally, so when the stream ends before any newline byte
\* is seen (the counter is 0: an empty body, or a payload without newline)
\* the decrement underflows the unsigned counter; no guard prevents it.
C14_DecrementUnderflows == []NoNewlineMeansZero /\ [][DecrementUnguarded]_vars

C14_Witness ==
    /\ args.input = "url"
    /\ dl.stream_ended
    /\ CountNewlines(body) = 0
    /\ \/ outcome.status = "panic" /\ ~sfile_info.tempfile_flag
       \/ pc = "rewrite" /\ dl.downloaded_lines = UsizeMax

====
